---------------------------- MODULE Spec2Model ----------------------------
(***************************************************************************)
(* A model of main.py, the local patent document generator:                *)
(*   - normalize_claims, the claims normaliser (a pure function on text),  *)
(*   - generate_patent, the four-template rendering handler,               *)
(*   - download, the retrieval handler.                                    *)
(*                                                                         *)
(* Text is a sequence of characters; a character is a one-character        *)
(* string, and the characters outside ASCII carry a name:                  *)
(*   "QUAN" "LI" "YAO" "QIU"  the four ideographs of the label word        *)
(*   "IDEO_STOP"   the ideographic full stop                               *)
(*   "FW_COLON"    the full-width colon                                    *)
(*   "FW_SEMI"     the full-width semicolon                                *)
(*   "DUN"         the ideographic enumeration comma                       *)
(***************************************************************************)
EXTENDS Integers, Sequences, FiniteSets, TLC

VARIABLES
    claims,        \* normalize_claims: the argument, a tagged value
    out,           \* normalize_claims: the list returned for claims
    out2,          \* normalize_claims: the list returned for out
    phase,         \* "input", "normalized", "renormalized", or "server"
    templates,     \* the template files present in TEMPLATE_DIR
    store,         \* the paths that exist relative to OUTPUT_DIR, with their content
    req,           \* per request of generate_patent: its position and locals
    attempts,      \* per request: the render_docx calls made so far, in order
    lastDownload   \* the outcome of the latest download call

normVars == <<claims, out, out2, phase>>
serverVars == <<templates, store, req, attempts, lastDownload>>
vars == <<claims, out, out2, phase, templates, store, req, attempts, lastDownload>>

-----------------------------------------------------------------------------
(* Characters and character classes                                         *)

SP == " "
TAB == "\t"
NL == "\n"
IDEO_STOP == "IDEO_STOP"
FW_COLON == "FW_COLON"
FW_SEMI == "FW_SEMI"
DUN == "DUN"

\* What str.strip()/rstrip() without argument remove and what \s matches.
Space == {SP, TAB, NL}
\* What \d matches.
Digit == {"0", "1", "2", "3", "4", "5", "6", "7", "8", "9"}
\* The line boundaries of str.splitlines() present in the alphabet.
LineBreak == {NL}
\* The literal word of the label pattern.
LabelWord == <<"QUAN", "LI", "YAO", "QIU">>
\* [:FW_COLON] of the label pattern.
LabelColon == {":", FW_COLON}
\* [\) DUN \.] of the enumerator pattern.
EnumMark == {")", DUN, "."}
\* The argument of the second rstrip: space . ; FW_SEMI : FW_COLON
TrailSet == {SP, ".", ";", FW_SEMI, ":", FW_COLON}

-----------------------------------------------------------------------------
(* String primitives                                                        *)

\* The first index >= k of s whose character is not in cls (Len(s)+1 if none):
\* where a greedy cls* started at k stops.
RECURSIVE SkipClass(_, _, _)
SkipClass(s, k, cls) ==
    IF k <= Len(s) /\ s[k] \in cls THEN SkipClass(s, k + 1, cls) ELSE k

\* s from index k to its end.
Tail_(s, k) == SubSeq(s, k, Len(s))

\* str.rstrip(chars)
RECURSIVE RStripSet(_, _)
RStripSet(s, cls) ==
    IF Len(s) > 0 /\ s[Len(s)] \in cls
    THEN RStripSet(SubSeq(s, 1, Len(s) - 1), cls)
    ELSE s

\* str.rstrip()
RStrip(s) == RStripSet(s, Space)

\* str.strip()
Strip(s) == Tail_(RStrip(s), SkipClass(RStrip(s), 1, Space))

\* lit occurs in s at index k.
StartsWithAt(s, k, lit) ==
    /\ k + Len(lit) - 1 <= Len(s)
    /\ SubSeq(s, k, k + Len(lit) - 1) = lit

\* str.endswith of the one-character string ch.
EndsWith(s, ch) == Len(s) > 0 /\ s[Len(s)] = ch

\* The decimal numeral of i > 0, as formatted by an f-string.
RECURSIVE Numeral(_)
Numeral(i) ==
    LET d == <<"0", "1", "2", "3", "4", "5", "6", "7", "8", "9">>[(i % 10) + 1]
    IN IF i < 10 THEN <<d>> ELSE Numeral(i \div 10) \o <<d>>

\* The first index >= k of s whose character is in cls (Len(s)+1 if none).
RECURSIVE FindClass(_, _, _)
FindClass(s, k, cls) ==
    IF k <= Len(s) /\ s[k] \notin cls THEN FindClass(s, k + 1, cls) ELSE k

\* str.splitlines(): the lines of s, without their line breaks; a final line
\* break opens no further line.
RECURSIVE SplitLines(_)
SplitLines(s) ==
    IF Len(s) = 0 THEN <<>>
    ELSE <<SubSeq(s, 1, FindClass(s, 1, LineBreak) - 1)>>
         \o SplitLines(Tail_(s, FindClass(s, 1, LineBreak) + 1))

-----------------------------------------------------------------------------
(* normalize_claims                                                         *)

\* safe_text on a string.
safe_text(v) == Strip(v)

\* Where the match of ^\s*<label word>\s*\d+\s*[:FW_COLON]\s* ends in c:
\* the index of the first character after it, 0 when there is no match.
LabelMatchEnd(c) ==
    LET p1 == SkipClass(c, 1, Space) IN
    IF ~StartsWithAt(c, p1, LabelWord) THEN 0 ELSE
    LET p2 == SkipClass(c, p1 + Len(LabelWord), Space)
        p3 == SkipClass(c, p2, Digit) IN
    IF p3 = p2 THEN 0 ELSE
    LET p4 == SkipClass(c, p3, Space) IN
    IF p4 > Len(c) \/ c[p4] \notin LabelColon THEN 0
    ELSE SkipClass(c, p4 + 1, Space)

\* re.sub(label pattern, "", c).strip()
StripLabel(c) ==
    IF LabelMatchEnd(c) = 0 THEN Strip(c) ELSE Strip(Tail_(c, LabelMatchEnd(c)))

\* re.match(^\s*{i}\.\s+, c) is a match.
NumberMatch(i, c) ==
    LET p1 == SkipClass(c, 1, Space)
        p2 == p1 + Len(Numeral(i)) IN
    /\ StartsWithAt(c, p1, Numeral(i) \o <<".">>)
    /\ p2 + 1 <= Len(c)
    /\ c[p2 + 1] \in Space

\* Where the match of ^\s*\d+\s*[\) DUN \.]\s* ends in c, 0 when no match.
EnumMatchEnd(c) ==
    LET p1 == SkipClass(c, 1, Space)
        p2 == SkipClass(c, p1, Digit) IN
    IF p2 = p1 THEN 0 ELSE
    LET p3 == SkipClass(c, p2, Space) IN
    IF p3 > Len(c) \/ c[p3] \notin EnumMark THEN 0
    ELSE SkipClass(c, p3 + 1, Space)

\* re.sub(enumerator pattern, "", c).strip()
StripEnumerator(c) ==
    IF EnumMatchEnd(c) = 0 THEN Strip(c) ELSE Strip(Tail_(c, EnumMatchEnd(c)))

\* Renumber without the look at the number already there.
RenumberBlind(i, c) == Numeral(i) \o <<".", SP>> \o c

\* The numbering step of the loop body.
Renumber(i, c) ==
    IF ~NumberMatch(i, c)
    THEN Numeral(i) \o <<".", SP>> \o StripEnumerator(c)
    ELSE c

\* The terminator step of the loop body.
Terminate(c) ==
    IF ~EndsWith(RStrip(c), IDEO_STOP)
    THEN RStripSet(RStrip(c), TrailSet) \o <<IDEO_STOP>>
    ELSE RStrip(c)

\* The loop body for the item c at position i.
NormalizeItem(i, c) == Terminate(Renumber(i, StripLabel(c)))

\* FilterItems without its condition: [safe_text(x) for x in xs]
FilterNothing(xs) == [k \in 1..Len(xs) |-> safe_text(xs[k])]

\* [safe_text(x) for x in xs if safe_text(x)]
RECURSIVE FilterItems(_)
FilterItems(xs) ==
    IF Len(xs) = 0 THEN <<>>
    ELSE IF Len(safe_text(Head(xs))) > 0
         THEN <<safe_text(Head(xs))>> \o FilterItems(Tail(xs))
         ELSE FilterItems(Tail(xs))

\* The items the loop runs over, by the shape of the argument.
Items(c) ==
    CASE c.kind = "none" -> <<>>
      [] c.kind = "list" -> FilterItems(c.val)
      [] c.kind = "text" -> FilterItems(SplitLines(safe_text(c.val)))

\* for i, c in enumerate(items, start=1): ... out.append(c)
NumberItems(items) == [i \in 1..Len(items) |-> NormalizeItem(i, items[i])]

normalize_claims(c) == NumberItems(Items(c))

\* The absent argument.
NoClaims == [kind |-> "none", val |-> <<>>]

-----------------------------------------------------------------------------
(* generate_patent and download                                             *)
(*                                                                          *)
(* A file name or path is a sequence of pieces; a piece is one of the two   *)
(* separator characters or a run of characters that holds neither.          *)

\* The most requests of generate_patent in flight or finished.
MaxReqs == 2

Reqs == 1..MaxReqs

TPL_CLAIMS == "100001_claims_template"
TPL_SPEC == "100002_specification_template"
TPL_DRAWINGS == "100003_drawings_template"
TPL_ABSTRACT == "100004_abstract_template"

AllTemplates == {TPL_CLAIMS, TPL_SPEC, TPL_DRAWINGS, TPL_ABSTRACT}

\* The values uuid4().hex[:10] takes here: runs of ten hex digits.
UIDs == {"0123456789", "abcdef0123"}

\* The program's own file, which lies beside the output directory.
SourcePath == <<"..", "/", "main.py">>
SourceFile == [writer |-> 0, tpl |-> "none", complete |-> TRUE, context |-> <<>>]

\* "\n".join(lines)
RECURSIVE Join(_)
Join(lines) ==
    IF Len(lines) = 0 THEN <<>>
    ELSE IF Len(lines) = 1 THEN lines[1]
    ELSE lines[1] \o <<NL>> \o Join(Tail(lines))

\* The docxtpl context of a payload.
Context(payload) ==
    [ TITLE |-> safe_text(payload.title),
      TECH_FIELD |-> safe_text(payload.tech_field),
      BACKGROUND |-> safe_text(payload.background),
      INVENTION_CONTENT |-> safe_text(payload.invention_content),
      DRAWINGS_DESC |-> safe_text(payload.drawings_desc),
      EMBODIMENT |-> safe_text(payload.embodiment),
      CLAIMS |-> Join(normalize_claims([kind |-> "list", val |-> payload.claims])),
      ABSTRACT |-> safe_text(payload.abstract) ]

\* PatentPayload with its defaults.
DefaultPayload ==
    [ title |-> <<>>, tech_field |-> <<>>, background |-> <<>>,
      invention_content |-> <<>>, drawings_desc |-> <<>>, embodiment |-> <<>>,
      claims |-> <<>>, abstract |-> <<>> ]

\* The payloads sent: a title to trim, and claims with a label, a blank
\* entry and a stale enumerator.
Payloads ==
    { [DefaultPayload EXCEPT
          !.title = <<SP, "a", SP>>,
          !.claims = << LabelWord \o <<"1", FW_COLON, "a">>, <<SP>>, <<"2", ")", "a", ".">> >>] }

\* The templates ensure_templates_exist finds missing.
Missing(present) == {t \in {TPL_CLAIMS, TPL_SPEC, TPL_DRAWINGS, TPL_ABSTRACT} : t \notin present}

\* The role suffix of the file rendered from a template.
Role(tpl) ==
    CASE tpl = TPL_SPEC -> "shuomingshu"
      [] tpl = TPL_CLAIMS -> "quanliyaoqiushu"
      [] tpl = TPL_DRAWINGS -> "shuomingshufutu"
      [] tpl = TPL_ABSTRACT -> "shuomingshuzhaiyao"

\* The output file name without the request identifier.
OutNameShared(uid, tpl) == <<"_" \o Role(tpl) \o ".docx">>

\* f"{uid}_<role>.docx"
OutName(uid, tpl) == <<uid \o "_" \o Role(tpl) \o ".docx">>

\* The renders in an order other than the handler's.
RenderOrderAsDeclared == <<TPL_CLAIMS, TPL_SPEC, TPL_DRAWINGS, TPL_ABSTRACT>>

\* The render_docx calls of the try block, in order.
RenderOrder == <<TPL_SPEC, TPL_CLAIMS, TPL_DRAWINGS, TPL_ABSTRACT>>

\* What a failing render_docx raises: DocxTemplate(...) or tpl.render before
\* anything is written, or tpl.save with the file opened and partly written.
Causes == {"render_error", "save_error"}

\* The store after path is written.
Written(st, path, file) ==
    [q \in (DOMAIN st) \cup {path} |-> IF q = path THEN file ELSE st[q]]

\* build_download_url
build_download_url(rel_path) == <<"origin">> \o rel_path

\* The file name a locator carries after /download/.
LocatorName(url) == SubSeq(url, 3, Len(url))

\* The response of a finished handler that rendered all four.
Success(uid) ==
    [ status |-> 200, kind |-> "success", id |-> uid,
      files |-> [ spec |-> build_download_url(<<"/download/">> \o OutName(uid, TPL_SPEC)),
                  claims |-> build_download_url(<<"/download/">> \o OutName(uid, TPL_CLAIMS)),
                  abstract |-> build_download_url(<<"/download/">> \o OutName(uid, TPL_ABSTRACT)),
                  drawings |-> build_download_url(<<"/download/">> \o OutName(uid, TPL_DRAWINGS)) ] ]

Idle == [pc |-> "idle"]

\* generate_patent up to the try block: the template check, the identifier,
\* the context.
GenerateStart(r) ==
    /\ phase = "server"
    /\ req[r].pc = "idle"
    /\ IF Missing(templates) # {}
       THEN req' = [req EXCEPT ![r] =
                       [ pc |-> "done",
                         response |-> [status |-> 500, kind |-> "config",
                                       detail |-> Missing(templates)] ]]
       ELSE \E uid \in UIDs, payload \in Payloads :
               req' = [req EXCEPT ![r] =
                          [pc |-> "render", uid |-> uid, context |-> Context(payload)]]
    /\ UNCHANGED <<normVars, templates, store, attempts, lastDownload>>

\* One render_docx call of the try block returns: the file is written.
GenerateRender(r) ==
    /\ phase = "server"
    /\ req[r].pc = "render"
    /\ Len(attempts[r]) < Len(RenderOrder)
    /\ LET tpl == RenderOrder[Len(attempts[r]) + 1]
           path == OutName(req[r].uid, tpl)
       IN /\ store' = Written(store, path,
                               [writer |-> r, tpl |-> tpl, complete |-> TRUE,
                                context |-> req[r].context])
          /\ attempts' = [attempts EXCEPT ![r] =
                             Append(@, [tpl |-> tpl, ok |-> TRUE, path |-> path])]
    /\ UNCHANGED <<normVars, templates, req, lastDownload>>

\* One render_docx call of the try block raises: the handler answers 500.
\* A render that fails while saving leaves a part of its file.
GenerateRenderFails(r) ==
    /\ phase = "server"
    /\ req[r].pc = "render"
    /\ Len(attempts[r]) < Len(RenderOrder)
    /\ LET tpl == RenderOrder[Len(attempts[r]) + 1]
           path == OutName(req[r].uid, tpl)
       IN \E cause \in Causes :
            LET partial == (cause = "save_error") IN
            /\ store' = IF partial
                        THEN Written(store, path,
                                     [writer |-> r, tpl |-> tpl, complete |-> FALSE,
                                      context |-> req[r].context])
                        ELSE store
            /\ attempts' = [attempts EXCEPT ![r] =
                               Append(@, [tpl |-> tpl, ok |-> FALSE, cause |-> cause,
                                          path |-> IF partial THEN path ELSE <<>>])]
            /\ req' = [req EXCEPT ![r] =
                          [ pc |-> "done", uid |-> req[r].uid,
                            response |-> [status |-> 500, kind |-> "render",
                                          detail |-> cause] ]]
    /\ UNCHANGED <<normVars, templates, lastDownload>>

\* generate_patent after the try block: the success response.
GenerateRespond(r) ==
    /\ phase = "server"
    /\ req[r].pc = "render"
    /\ Len(attempts[r]) = Len(RenderOrder)
    /\ req' = [req EXCEPT ![r] =
                  [pc |-> "done", uid |-> req[r].uid, response |-> Success(req[r].uid)]]
    /\ UNCHANGED <<normVars, templates, store, attempts, lastDownload>>

\* "/" in filename or "\\" in filename
HasSeparator(filename) == \E k \in 1..Len(filename) : filename[k] \in {"/", "\\"}

\* download with its two checks in the other order.
downloadExistsFirst(filename, st) ==
    IF filename \notin DOMAIN st
    THEN [status |-> 404, detail |-> "file not found"]
    ELSE IF HasSeparator(filename)
    THEN [status |-> 400, detail |-> "invalid filename"]
    ELSE [status |-> 200, filename |-> filename, file |-> st[filename]]

\* download(filename) against the store st.
download(filename, st) ==
    IF HasSeparator(filename)
    THEN [status |-> 400, detail |-> "invalid filename"]
    ELSE IF filename \notin DOMAIN st
    THEN [status |-> 404, detail |-> "file not found"]
    ELSE [status |-> 200, filename |-> filename, file |-> st[filename]]

\* The file names asked for.
DownloadNames ==
    { SourcePath, <<"..", "\\", "main.py">> }
    \cup { OutName("0123456789", TPL_DRAWINGS) }

\* A call of download; found records the file the path named then, if any.
Download ==
    /\ phase = "server"
    /\ \E filename \in DownloadNames :
          lastDownload' = << [ filename |-> filename,
                               found |-> IF filename \in DOMAIN store
                                         THEN <<store[filename]>> ELSE <<>>,
                               response |-> download(filename, store) ] >>
    /\ UNCHANGED <<normVars, templates, store, req, attempts>>

Init ==
    /\ claims = NoClaims
    /\ out = <<>>
    /\ out2 = <<>>
    /\ phase = "server"
    /\ templates \in {AllTemplates, AllTemplates \ {TPL_DRAWINGS}}
    /\ store = [q \in {SourcePath} |-> SourceFile]
    /\ req = [r \in Reqs |-> Idle]
    /\ attempts = [r \in Reqs |-> <<>>]
    /\ lastDownload = <<>>

Next ==
    \/ \E r \in Reqs : GenerateStart(r)
    \/ \E r \in Reqs : GenerateRender(r)
    \/ \E r \in Reqs : GenerateRenderFails(r)
    \/ \E r \in Reqs : GenerateRespond(r)
    \/ Download

Spec == Init /\ [][Next]_vars

-----------------------------------------------------------------------------
(* The inputs of the normaliser                                             *)

\* The longest input text, in tokens.
MaxTokens == 4
\* The longest input text of the label study, in tokens.
MaxLabelTokens == 6

\* The pieces input text is made of: single characters and the label word.
Tokens ==
    { <<"1">>, <<"2">>, <<".">>, <<")">>, <<SP>>, <<TAB>>, <<NL>>, <<"a">>,
      <<FW_COLON>>, <<IDEO_STOP>>, LabelWord }

\* The pieces of the label study.
LabelTokens ==
    { <<"1">>, <<"2">>, <<".">>, <<SP>>, <<"a">>, <<FW_COLON>>, LabelWord }

RECURSIVE Flatten(_)
Flatten(ts) == IF Len(ts) = 0 THEN <<>> ELSE Head(ts) \o Flatten(Tail(ts))

\* The list a caller holds who cut the text s at every line break: every
\* piece is an entry, the empty ones included.
RECURSIVE Pieces(_)
Pieces(s) ==
    IF FindClass(s, 1, {NL}) > Len(s) THEN <<s>>
    ELSE <<SubSeq(s, 1, FindClass(s, 1, {NL}) - 1)>>
         \o Pieces(Tail_(s, FindClass(s, 1, {NL}) + 1))

AsList(s) == [kind |-> "list", val |-> Pieces(s)]
AsText(s) == [kind |-> "text", val |-> s]

\* The argument of the second call: the list the first call returned.
Returned(o) == [kind |-> "list", val |-> o]

-----------------------------------------------------------------------------
(* The server's state, at rest                                              *)

ServerIdle ==
    /\ templates = {}
    /\ store = <<>>
    /\ req = <<>>
    /\ attempts = <<>>
    /\ lastDownload = <<>>

-----------------------------------------------------------------------------
(* The normaliser applied once, and again to what it returned               *)

InitNorm ==
    /\ \E k \in 0..MaxTokens : \E ts \in [1..k -> Tokens] :
           claims \in {NoClaims, AsList(Flatten(ts)), AsText(Flatten(ts))}
    /\ out = <<>>
    /\ out2 = <<>>
    /\ phase = "input"
    /\ ServerIdle

InitLabel ==
    /\ \E k \in 0..MaxLabelTokens : \E ts \in [1..k -> LabelTokens] :
           claims = AsList(Flatten(ts))
    /\ out = <<>>
    /\ out2 = <<>>
    /\ phase = "input"
    /\ ServerIdle

Normalize ==
    /\ phase = "input"
    /\ out' = normalize_claims(claims)
    /\ phase' = "normalized"
    /\ UNCHANGED <<claims, out2, serverVars>>

Renormalize ==
    /\ phase = "normalized"
    /\ out2' = normalize_claims(Returned(out))
    /\ phase' = "renormalized"
    /\ UNCHANGED <<claims, out, serverVars>>

NextNorm == Normalize \/ Renormalize

SpecNorm == InitNorm /\ [][NextNorm]_vars

SpecLabel == InitLabel /\ [][NextNorm]_vars

-----------------------------------------------------------------------------
(* What the claims speak of                                                 *)

Blank(e) == \A k \in 1..Len(e) : e[k] \in Space

\* The entries of the argument: of a list its elements, of a text its lines.
Entries(c) ==
    IF c.kind = "list" THEN c.val
    ELSE IF c.kind = "text" THEN Pieces(c.val)
    ELSE <<>>

NonBlank(e) == ~Blank(e)

\* The retained entries: the non-blank ones, trimmed, in their order.
Retained(c) ==
    LET kept == SelectSeq(Entries(c), NonBlank)
    IN [j \in 1..Len(kept) |-> Strip(kept[j])]

\* "i. " for position i.
Prefix(i) == Numeral(i) \o <<".", SP>>

Called == phase \in {"normalized", "renormalized"}

\* C1: for a list of N entries, each non-blank after trimming, the i-th item
\* returned begins with the numeral i, a period and a space, for every i in 1..N.
C1_NumberedInOrder ==
    (Called /\ claims.kind = "list" /\ \A k \in 1..Len(claims.val) : ~Blank(claims.val[k]))
    => /\ Len(out) = Len(claims.val)
       /\ \A i \in 1..Len(out) : StartsWithAt(out[i], 1, Prefix(i))

\* C2: every item returned ends with exactly one ideographic full stop: its
\* last character is the full stop and the one before it is not.
C2_OneFullStop ==
    Called =>
        \A i \in 1..Len(out) :
            /\ EndsWith(out[i], IDEO_STOP)
            /\ Len(out[i]) >= 2 => out[i][Len(out[i]) - 1] # IDEO_STOP

\* C3: the normaliser applied to the list it returned returns that list again.
C3_Idempotent == phase = "renormalized" => out2 = out

\* The item o at position i holds a label (label word, digits, colon) at its
\* start or directly after its number.
RetainsLabel(i, o) ==
    \/ LabelMatchEnd(o) # 0
    \/ /\ StartsWithAt(o, 1, Numeral(i) \o <<".">>)
       /\ LabelMatchEnd(Tail_(o, Len(Numeral(i)) + 2)) # 0

\* C4: no item returned retains a label, neither at its start nor directly
\* after its number, also when the label followed a numeric prefix or was
\* repeated in the entry.
C4_NoLabelRetained ==
    Called => \A i \in 1..Len(out) : ~RetainsLabel(i, out[i])

C6_Renumbered ==
    Called =>
        \A i \in 1..Len(Retained(claims)) :
            ~StartsWithAt(Retained(claims)[i], 1, Prefix(i)) =>
                /\ i <= Len(out)
                /\ out[i] = Terminate(Prefix(i)
                                      \o StripEnumerator(StripLabel(Retained(claims)[i])))

\* C7: blank entries of a list and blank lines of a text are dropped before
\* the numbering: as many items are returned as entries are retained, the
\* j-th of them made from the j-th retained entry and carrying the numeral j,
\* and nothing is returned for an absent or empty argument.
C7_FilteredBeforeNumbering ==
    Called =>
        /\ Len(out) = Cardinality({k \in 1..Len(Entries(claims)) : ~Blank(Entries(claims)[k])})
        /\ \A j \in 1..Len(out) :
               /\ out[j] = NormalizeItem(j, Retained(claims)[j])
               /\ StartsWithAt(out[j], 1, Numeral(j))
               /\ out[j][Len(Numeral(j)) + 1] \notin Digit
        /\ (claims.kind = "none" \/ Len(claims.val) = 0) => out = <<>>

C7_Witness ==
    /\ phase = "normalized"
    /\ claims = AsList(<<"a", NL, NL, "a">>)
    /\ out = << <<"1", ".", SP, "a", IDEO_STOP>>, <<"2", ".", SP, "a", IDEO_STOP>> >>

\* C8: the four templates are rendered in the order specification, claims,
\* drawings, abstract; after a render that fails no further render is made,
\* the response is one rendering failure carrying the cause and no locator;
\* a success response with four locators comes only after four renders.
C8_BatchAtomic ==
    \A r \in 1..Len(req) :
        LET a == attempts[r]
            order == <<TPL_SPEC, TPL_CLAIMS, TPL_DRAWINGS, TPL_ABSTRACT>>
        IN /\ Len(a) <= 4
           /\ \A k \in 1..Len(a) : a[k].tpl = order[k]
           /\ \A k \in 1..Len(a) :
                  ~a[k].ok =>
                      /\ k = Len(a)
                      /\ req[r].pc = "done"
                      /\ req[r].response.status = 500
                      /\ req[r].response.kind = "render"
                      /\ req[r].response.detail = a[k].cause
                      /\ "files" \notin DOMAIN req[r].response
           /\ (req[r].pc = "done" /\ req[r].response.status = 200) =>
                  /\ Len(a) = 4
                  /\ \A k \in 1..4 : a[k].ok
                  /\ DOMAIN req[r].response.files = {"spec", "claims", "abstract", "drawings"}

C8_Witness ==
    \E r \in 1..Len(req) :
        /\ Len(attempts[r]) = 3
        /\ ~attempts[r][3].ok
        /\ req[r].pc = "done"
        /\ req[r].response.kind = "render"

\* C9: download answers 400 for every file name holding "/" or a backslash,
\* whether or not the path names a file, and serves nothing for it; a name
\* without separator gets 404 if no such file is stored and the file otherwise.
C9_RetrievalGuard ==
    \A n \in 1..Len(lastDownload) :
        LET d == lastDownload[n]
            sep == \E k \in 1..Len(d.filename) : d.filename[k] = "/" \/ d.filename[k] = "\\"
        IN /\ sep => (d.response.status = 400 /\ "file" \notin DOMAIN d.response)
           /\ (~sep /\ d.found = <<>>) => d.response.status = 404
           /\ (~sep /\ d.found # <<>>) =>
                  /\ d.response.status = 200
                  /\ d.response.file = d.found[1]

C9_Witness ==
    /\ Len(lastDownload) = 1
    /\ lastDownload[1].filename = <<"..", "/", "main.py">>
    /\ lastDownload[1].found # <<>>
    /\ lastDownload[1].response.status = 400

\* The requests that drew an identifier.
Drew(r) == "uid" \in DOMAIN req[r]

\* The paths request r wrote.
PathsWritten(r) == {attempts[r][k].path : k \in 1..Len(attempts[r])} \ {<<>>}

\* The identifier of r is that of no other request.
OwnIdentifier(r) ==
    /\ Drew(r)
    /\ \A q \in 1..Len(req) : (q # r /\ Drew(q)) => req[q].uid # req[r].uid

\* C10: requests that drew distinct identifiers write no path in common, and
\* each locator of a success response names a file without separator that is
\* stored and was written whole by that request, so that download serves it.
C10_NoContention ==
    /\ \A r \in 1..Len(req) : \A q \in 1..Len(req) :
           (r # q /\ Drew(r) /\ Drew(q) /\ req[r].uid # req[q].uid)
           => PathsWritten(r) \cap PathsWritten(q) = {}
    /\ \A r \in 1..Len(req) :
           (OwnIdentifier(r) /\ req[r].pc = "done" /\ req[r].response.status = 200) =>
               \A f \in {"spec", "claims", "abstract", "drawings"} :
                   LET name == LocatorName(req[r].response.files[f])
                   IN /\ \A k \in 1..Len(name) : name[k] \notin {"/", "\\"}
                      /\ name \in DOMAIN store
                      /\ store[name].writer = r
                      /\ store[name].complete
                      /\ name \in PathsWritten(r)
                      /\ download(name, store).status = 200
                      /\ download(name, store).file.writer = r

C10_Witness ==
    \E r \in 1..Len(req) : \E q \in 1..Len(req) :
        /\ r # q
        /\ OwnIdentifier(r) /\ OwnIdentifier(q)
        /\ req[r].pc = "done" /\ req[r].response.status = 200
        /\ req[q].pc = "done" /\ req[q].response.status = 200
        /\ Len(lastDownload) = 1
        /\ lastDownload[1].response.status = 200
        /\ lastDownload[1].response.file.writer = r

=============================================================================
